---- MODULE Spec2Model ----
(***************************************************************************)
(* Model of backend/composio_integration/toolkit_service.py:               *)
(* ToolkitService, an adapter that normalizes the responses of the         *)
(* Composio toolkit catalog client.                                        *)
(*                                                                         *)
(* The service keeps no state between calls.  The state of the model is    *)
(* one call: the method and its arguments, the parameters handed to the    *)
(* client, the response the client gave, and the outcome of the call       *)
(* (a returned value or a raised exception).                               *)
(***************************************************************************)
EXTENDS Integers, Sequences, FiniteSets, TLC

VARIABLES pc, call, params, upstream, result

vars == <<pc, call, params, upstream, result>>

(***************************************************************************)
(* Python values.  Every value is a record whose field names tell its      *)
(* type, so that values of different types can be compared.                *)
(***************************************************************************)
None == [none |-> TRUE]
Str(s) == [str |-> s]
Bool(b) == [bool |-> b]
Int_(n) == [int |-> n]
List(l) == [list |-> l]
Dict(d) == [dict |-> d]
Obj(d) == [obj |-> d]
Model(d) == [obj |-> d, model_dump |-> TRUE]

NoAttrs == [k \in {} |-> None]
EmptyStr == Str(<<>>)
EmptyList == List(<<>>)
EmptyDict == Dict(NoAttrs)

IsNone(x) == "none" \in DOMAIN x
IsStr(x) == "str" \in DOMAIN x
IsBool(x) == "bool" \in DOMAIN x
IsList(x) == "list" \in DOMAIN x

\* isinstance(x, dict)
IsInstanceDict(x) == "dict" \in DOMAIN x

\* hasattr(x, '__dict__')
HasDunderDict(x) == "obj" \in DOMAIN x

\* hasattr(x, 'model_dump')
HasModelDump(x) == "model_dump" \in DOMAIN x

\* bool(x): None, "", [] and {} are falsy; an object is truthy whatever
\* attributes it has.
Truthy(x) ==
  IF IsNone(x) THEN FALSE
  ELSE IF IsStr(x) THEN Len(x.str) > 0
  ELSE IF IsList(x) THEN Len(x.list) > 0
  ELSE IF IsInstanceDict(x) THEN DOMAIN x.dict # {}
  ELSE IF IsBool(x) THEN x.bool
  ELSE IF "int" \in DOMAIN x THEN x.int # 0
  ELSE TRUE

\* d.get(k, default) on the key/value content d of a mapping
DictGet(d, k, default) == IF k \in DOMAIN d THEN d[k] ELSE default

\* the name -> value content of a mapping (itself) or of an object (__dict__)
AttrsOf(x) == IF HasDunderDict(x) THEN x.obj ELSE x.dict

\* whether x.get(...) can be called after the __dict__ unwrapping
HasGet(x) == HasDunderDict(x) \/ IsInstanceDict(x)

\* outcomes of a call
Return(v) == [ret |-> v]
Raise(e) == [exc |-> e]
IsRaise(o) == "exc" \in DOMAIN o
IsReturn(o) == "ret" \in DOMAIN o

(***************************************************************************)
(* Strings are sequences of characters.                                    *)
(***************************************************************************)
\* str.lower(), character by character
LowerChar(c) ==
  CASE c = "G" -> "g"
    [] c = "M" -> "m"
    [] c = "C" -> "c"
    [] c = "E" -> "e"
    [] OTHER -> c

Lower(s) == [i \in 1..Len(s) |-> LowerChar(s[i])]

\* q in s, for strings
IsSubstr(q, s) ==
  \E i \in 0..(Len(s) - Len(q)) : \A j \in 1..Len(q) : s[i + j] = q[j]

\* x in l, for a list l
InList(x, l) == \E i \in 1..Len(l) : l[i] = x

\* pydantic field validation
ValidStr(x) == IsStr(x)
ValidOptStr(x) == IsStr(x) \/ IsNone(x)
ValidStrList(x) == IsList(x) /\ \A i \in 1..Len(x.list) : IsStr(x.list[i])

OAUTH2 == Str(<<"OAUTH2">>)

(***************************************************************************)
(* list_toolkits                                                           *)
(***************************************************************************)
\* the client raised instead of answering
ClientError == Raise("ClientError")

\* params of client.toolkits.list: cursor and category only when truthy
list_params(limit, cursor, category) ==
  [k \in {"limit", "managed_by"}
        \cup (IF Truthy(cursor) THEN {"cursor"} ELSE {})
        \cup (IF Truthy(category) THEN {"category"} ELSE {}) |->
     CASE k = "limit" -> Int_(limit)
       [] k = "managed_by" -> Str(<<"composio">>)
       [] k = "cursor" -> cursor
       [] k = "category" -> category]

\* item.__dict__ when the item has one, else the item itself (no item the
\* client gives here is a named tuple, the case of _asdict)
toolkit_data(item) == AttrsOf(item)

item_auth_schemes(td) == DictGet(td, "auth_schemes", EmptyList)

item_managed_auth_schemes(td) ==
  DictGet(td, "composio_managed_auth_schemes", EmptyList)

\* a filter that forgets the provider-managed schemes
has_oauth2_declared_only(td) == InList(OAUTH2, item_auth_schemes(td).list)

\* the item is kept: not ("OAUTH2" not in auth_schemes or
\* "OAUTH2" not in composio_managed_auth_schemes)
has_oauth2(td) ==
  ~(~InList(OAUTH2, item_auth_schemes(td).list)
      \/ ~InList(OAUTH2, item_managed_auth_schemes(td).list))

item_meta(td) == DictGet(td, "meta", EmptyDict)

\* one key of meta, read from a mapping or from an object's __dict__
meta_get(meta, k) ==
  IF IsInstanceDict(meta) THEN DictGet(meta.dict, k, None)
  ELSE IF HasDunderDict(meta) THEN DictGet(meta.obj, k, None)
  ELSE None

item_logo(td) ==
  LET logo_url == meta_get(item_meta(td), "logo")
  IN IF ~Truthy(logo_url) THEN DictGet(td, "logo", None) ELSE logo_url

item_description(td) ==
  LET description == meta_get(item_meta(td), "description")
  IN IF ~Truthy(description) THEN DictGet(td, "description", None)
     ELSE description

\* the categories the loop reads: only those of a meta that is a mapping
\* holding the key "categories"
category_list(td) ==
  LET meta == item_meta(td)
  IN IF IsInstanceDict(meta) /\ "categories" \in DOMAIN meta.dict
     THEN DictGet(meta.dict, "categories", EmptyList)
     ELSE EmptyList

\* the value appended for each category that is a mapping or an object
category_values(cats, k) ==
  LET kept == SelectSeq(cats, HasGet)
  IN List([i \in 1..Len(kept) |-> DictGet(AttrsOf(kept[i]), k, EmptyStr)])

item_tags(td) == category_values(category_list(td).list, "name")

item_categories(td) == category_values(category_list(td).list, "id")

\* ToolkitInfo(...)
ToolkitInfo(td) ==
  [slug |-> DictGet(td, "slug", EmptyStr),
   name |-> DictGet(td, "name", EmptyStr),
   description |-> item_description(td),
   logo |-> item_logo(td),
   tags |-> item_tags(td),
   auth_schemes |-> item_auth_schemes(td),
   categories |-> item_categories(td)]

\* the field types ToolkitInfo declares
ToolkitInfo_valid(t) ==
  /\ ValidStr(t.slug)
  /\ ValidStr(t.name)
  /\ ValidOptStr(t.description)
  /\ ValidOptStr(t.logo)
  /\ ValidStrList(t.tags)
  /\ ValidStrList(t.auth_schemes)
  /\ ValidStrList(t.categories)

\* one pass of the loop body raises: .get on something that has none, "in"
\* on something that is no list, iteration over something that is no list,
\* or a ToolkitInfo that fails validation
item_raises(item) ==
  IF ~HasGet(item) THEN TRUE
  ELSE LET td == toolkit_data(item)
       IN IF ~IsList(item_auth_schemes(td)) THEN TRUE
          ELSE IF ~IsList(item_managed_auth_schemes(td)) THEN TRUE
          ELSE IF ~has_oauth2(td) THEN FALSE
          ELSE IF ~IsList(category_list(td)) THEN TRUE
          ELSE ~ToolkitInfo_valid(ToolkitInfo(td))

\* the loop over items, for items none of which raises
RECURSIVE toolkits_of(_)
toolkits_of(items) ==
  IF items = <<>> THEN <<>>
  ELSE LET td == toolkit_data(Head(items))
           rest == toolkits_of(Tail(items))
       IN IF has_oauth2(td) THEN <<ToolkitInfo(td)>> \o rest ELSE rest

\* toolkits_response.__dict__ when the response has one, else the response
response_data(resp) == AttrsOf(resp)

\* the pagination structure returned
list_result(rd, toolkits) ==
  [items |-> toolkits,
   total_items |-> DictGet(rd, "total_items", Int_(Len(toolkits))),
   total_pages |-> DictGet(rd, "total_pages", Int_(1)),
   current_page |-> DictGet(rd, "current_page", Int_(1)),
   next_cursor |-> DictGet(rd, "next_cursor", None)]

\* the body of the try block, resp being what client.toolkits.list gave
list_toolkits_try(resp) ==
  IF IsRaise(resp) THEN resp
  ELSE IF ~HasGet(resp) THEN Raise("AttributeError")
  ELSE LET rd == response_data(resp)
           items == DictGet(rd, "items", EmptyList)
       IN IF ~IsList(items) THEN Raise("TypeError")
          ELSE IF \E i \in 1..Len(items.list) : item_raises(items.list[i])
          THEN Raise("Exception")
          ELSE Return(list_result(rd, toolkits_of(items.list)))

\* a handler that answers an empty page instead of raising
list_toolkits_except_swallow(outcome) ==
  IF IsRaise(outcome)
  THEN Return([items |-> <<>>, total_items |-> Int_(0),
               total_pages |-> Int_(1), current_page |-> Int_(1),
               next_cursor |-> None])
  ELSE outcome

\* except Exception: log and raise
list_toolkits_except(outcome) == outcome

list_toolkits(resp) == list_toolkits_except(list_toolkits_try(resp))

(***************************************************************************)
(* get_toolkit_by_slug                                                     *)
(***************************************************************************)
\* a loop that compares the name where the slug is meant
RECURSIVE find_by_name(_, _)
find_by_name(toolkits, slug) ==
  IF toolkits = <<>> THEN None
  ELSE IF Head(toolkits).name = slug THEN Head(toolkits)
  ELSE find_by_name(Tail(toolkits), slug)

\* the loop: the first toolkit whose slug is the one asked for, else None
RECURSIVE find_by_slug(_, _)
find_by_slug(toolkits, slug) ==
  IF toolkits = <<>> THEN None
  ELSE IF Head(toolkits).slug = slug THEN Head(toolkits)
  ELSE find_by_slug(Tail(toolkits), slug)

get_toolkit_by_slug_try(slug, resp) ==
  LET toolkits_response == list_toolkits(resp)
  IN IF IsRaise(toolkits_response) THEN toolkits_response
     ELSE Return(find_by_slug(toolkits_response.ret.items, slug))

\* except Exception: log and raise
get_toolkit_by_slug_except(outcome) == outcome

get_toolkit_by_slug(slug, resp) ==
  get_toolkit_by_slug_except(get_toolkit_by_slug_try(slug, resp))

(***************************************************************************)
(* search_toolkits                                                         *)
(***************************************************************************)
\* a condition with all() where any() is meant
query_matches_all_tags(toolkit, query_lower) ==
  \/ IsSubstr(query_lower, Lower(toolkit.name.str))
  \/ (Truthy(toolkit.description)
        /\ IsSubstr(query_lower, Lower(toolkit.description.str)))
  \/ \A i \in 1..Len(toolkit.tags.list) :
        IsSubstr(query_lower, Lower(toolkit.tags.list[i].str))

\* the condition of the list comprehension
query_matches(toolkit, query_lower) ==
  \/ IsSubstr(query_lower, Lower(toolkit.name.str))
  \/ (Truthy(toolkit.description)
        /\ IsSubstr(query_lower, Lower(toolkit.description.str)))
  \/ \E i \in 1..Len(toolkit.tags.list) :
        IsSubstr(query_lower, Lower(toolkit.tags.list[i].str))

filtered_toolkits(toolkits, query) ==
  LET query_lower == Lower(query)
      keep(t) == query_matches(t, query_lower)
  IN SelectSeq(toolkits, keep)

\* a slice that keeps one item too many
slice_to_inclusive(seq, limit) ==
  SubSeq(seq, 1, IF limit + 1 > Len(seq) THEN Len(seq) ELSE limit + 1)

\* seq[:limit]: a negative limit counts from the end
slice_to(seq, limit) ==
  LET n == Len(seq)
      stop == IF limit < 0 THEN (IF n + limit < 0 THEN 0 ELSE n + limit)
              ELSE IF limit > n THEN n ELSE limit
  IN SubSeq(seq, 1, stop)

\* a count taken after the truncation
search_total_items_limited(filtered, limited) == Len(limited)

\* total_items: len(filtered_toolkits)
search_total_items(filtered, limited) == Len(filtered)

search_result(filtered, limit) ==
  LET limited_results == slice_to(filtered, limit)
  IN [items |-> limited_results,
      total_items |-> Int_(search_total_items(filtered, limited_results)),
      total_pages |-> Int_(1),
      current_page |-> Int_(1),
      next_cursor |-> None]

search_toolkits_try(query, limit, resp) ==
  LET all_toolkits_response == list_toolkits(resp)
  IN IF IsRaise(all_toolkits_response) THEN all_toolkits_response
     ELSE Return(search_result(
            filtered_toolkits(all_toolkits_response.ret.items, query), limit))

\* except Exception: log and raise
search_toolkits_except(outcome) == outcome

search_toolkits(query, limit, resp) ==
  search_toolkits_except(search_toolkits_try(query, limit, resp))

(***************************************************************************)
(* get_toolkit_icon                                                        *)
(***************************************************************************)
\* pydantic's model_dump(): the model and the models nested in it as mappings
RECURSIVE ModelDump(_)
ModelDump(x) ==
  IF HasModelDump(x)
  THEN Dict([k \in DOMAIN x.obj |-> ModelDump(x.obj[k])])
  ELSE IF IsList(x)
  THEN List([i \in 1..Len(x.list) |-> ModelDump(x.list[i])])
  ELSE x

\* dict(toolkit_response) raises for what is no mapping
can_be_toolkit_dict(resp) ==
  HasModelDump(resp) \/ HasDunderDict(resp) \/ IsInstanceDict(resp)

\* model_dump() when there is one, else __dict__ when there is one, else
\* dict(toolkit_response).  get_detailed_toolkit_info repeats these lines.
toolkit_dict_of(resp) ==
  IF HasModelDump(resp) THEN ModelDump(resp).dict
  ELSE IF HasDunderDict(resp) THEN resp.obj
  ELSE resp.dict

icon_logo(toolkit_dict) ==
  LET meta == DictGet(toolkit_dict, "meta", EmptyDict)
  IN IF IsInstanceDict(meta) THEN DictGet(meta.dict, "logo", None)
     ELSE IF HasDunderDict(meta) THEN DictGet(meta.obj, "logo", None)
     ELSE None

\* the body of the try block, resp being what client.toolkits.retrieve gave
get_toolkit_icon_try(resp) ==
  IF IsRaise(resp) THEN resp
  ELSE IF ~can_be_toolkit_dict(resp) THEN Raise("TypeError")
  ELSE Return(icon_logo(toolkit_dict_of(resp)))

\* except Exception: log and return None
get_toolkit_icon_except(outcome) ==
  IF IsRaise(outcome) THEN Return(None) ELSE outcome

get_toolkit_icon(resp) == get_toolkit_icon_except(get_toolkit_icon_try(resp))

(***************************************************************************)
(* get_detailed_toolkit_info                                               *)
(***************************************************************************)
\* meta.__dict__ when meta has one
detail_meta(toolkit_dict) ==
  LET meta == DictGet(toolkit_dict, "meta", EmptyDict)
  IN IF HasDunderDict(meta) THEN Dict(meta.obj) ELSE meta

\* meta.get(k, default) if isinstance(meta, dict) else getattr(meta, k, default)
\* (meta is a mapping or, having no attribute k, gives the default)
meta_field(meta, k, default) ==
  IF IsInstanceDict(meta) THEN DictGet(meta.dict, k, default) ELSE default

\* cat.get('name', '') if isinstance(cat, dict) else getattr(cat, 'name', '')
category_name(cat) ==
  IF IsInstanceDict(cat) THEN DictGet(cat.dict, "name", EmptyStr)
  ELSE IF HasDunderDict(cat) THEN DictGet(cat.obj, "name", EmptyStr)
  ELSE EmptyStr

detail_categories(meta) ==
  LET categories_data == meta_field(meta, "categories", EmptyList).list
  IN List([i \in 1..Len(categories_data) |->
             category_name(categories_data[i])])

\* x.__dict__ when x has one, else x
unwrap(x) == AttrsOf(x)

\* x.__dict__ when x has one, else (x or {})
unwrap_or_empty(x) ==
  IF HasDunderDict(x) THEN x.obj
  ELSE IF Truthy(x) THEN x.dict
  ELSE NoAttrs

AuthConfigField(field_dict) ==
  [name |-> DictGet(field_dict, "name", EmptyStr),
   displayName |-> DictGet(field_dict, "display_name", EmptyStr),
   type |-> DictGet(field_dict, "type", Str(<<"string">>)),
   description |-> DictGet(field_dict, "description", None),
   required |-> DictGet(field_dict, "required", Bool(FALSE)),
   default |-> DictGet(field_dict, "default", None),
   legacy_template_name |-> DictGet(field_dict, "legacy_template_name", None)]

AuthConfigField_valid(f) ==
  /\ ValidStr(f.name)
  /\ ValidStr(f.displayName)
  /\ ValidStr(f.type)
  /\ ValidOptStr(f.description)
  /\ IsBool(f.required)
  /\ ValidOptStr(f.default)
  /\ ValidOptStr(f.legacy_template_name)

\* the loop over one field list
auth_config_fields(field_list) ==
  [i \in 1..Len(field_list) |-> AuthConfigField(unwrap(field_list[i]))]

\* for requirement_level in ['required', 'optional']
requirement_levels(field_type_dict) ==
  [requirement_level \in {"required", "optional"} |->
     auth_config_fields(
       DictGet(field_type_dict, requirement_level, EmptyList).list)]

\* for field_type, field_type_obj in fields_dict.items()
auth_fields(fields_dict) ==
  [field_type \in DOMAIN fields_dict |->
     requirement_levels(unwrap_or_empty(fields_dict[field_type]))]

config_fields_dict(config) ==
  unwrap_or_empty(DictGet(unwrap(config), "fields", None))

AuthConfigDetails(config) ==
  [name |-> DictGet(unwrap(config), "name", EmptyStr),
   mode |-> DictGet(unwrap(config), "mode", EmptyStr),
   fields |-> auth_fields(config_fields_dict(config))]

auth_config_details(raw_auth_configs) ==
  [i \in 1..Len(raw_auth_configs) |-> AuthConfigDetails(raw_auth_configs[i])]

\* if initiation_obj:
initiation_declared(initiation_obj) == Truthy(initiation_obj)

\* the second loop: the first config whose connected_account_initiation is
\* truthy gives the fields, and the loop breaks
RECURSIVE connected_account_initiation(_)
connected_account_initiation(raw_auth_configs) ==
  IF raw_auth_configs = <<>> THEN None
  ELSE LET initiation_obj ==
             DictGet(config_fields_dict(Head(raw_auth_configs)),
                     "connected_account_initiation", None)
       IN IF initiation_declared(initiation_obj)
          THEN Dict(requirement_levels(unwrap(initiation_obj)))
          ELSE connected_account_initiation(Tail(raw_auth_configs))

raw_auth_configs_of(toolkit_dict) ==
  DictGet(toolkit_dict, "auth_config_details", EmptyList)

DetailedToolkitInfo(toolkit_dict) ==
  LET meta == detail_meta(toolkit_dict)
      raw_auth_configs == raw_auth_configs_of(toolkit_dict).list
  IN [slug |-> DictGet(toolkit_dict, "slug", EmptyStr),
      name |-> DictGet(toolkit_dict, "name", EmptyStr),
      description |-> meta_field(meta, "description", EmptyStr),
      logo |-> meta_field(meta, "logo", None),
      tags |-> EmptyList,
      auth_schemes |->
        DictGet(toolkit_dict, "composio_managed_auth_schemes", EmptyList),
      categories |-> detail_categories(meta),
      auth_config_details |-> auth_config_details(raw_auth_configs),
      connected_account_initiation_fields |->
        connected_account_initiation(raw_auth_configs),
      base_url |-> DictGet(toolkit_dict, "base_url", None)]

\* a value the loops can unwrap and read with .get
field_group_raises(field_type_obj) ==
  IF ~HasDunderDict(field_type_obj) /\ Truthy(field_type_obj)
       /\ ~IsInstanceDict(field_type_obj)
  THEN TRUE
  ELSE LET field_type_dict == unwrap_or_empty(field_type_obj)
       IN \E requirement_level \in {"required", "optional"} :
            LET field_list ==
                  DictGet(field_type_dict, requirement_level, EmptyList)
            IN IF ~IsList(field_list) THEN TRUE
               ELSE \E i \in 1..Len(field_list.list) :
                      IF ~HasGet(field_list.list[i]) THEN TRUE
                      ELSE ~AuthConfigField_valid(
                              AuthConfigField(unwrap(field_list.list[i])))

config_raises(config) ==
  IF ~HasGet(config) THEN TRUE
  ELSE LET config_dict == unwrap(config)
           fields_obj == DictGet(config_dict, "fields", None)
       IN IF ~HasDunderDict(fields_obj) /\ Truthy(fields_obj)
               /\ ~IsInstanceDict(fields_obj)
          THEN TRUE
          ELSE \/ \E field_type \in DOMAIN unwrap_or_empty(fields_obj) :
                    field_group_raises(unwrap_or_empty(fields_obj)[field_type])
               \/ ~ValidStr(DictGet(config_dict, "name", EmptyStr))
               \/ ~ValidStr(DictGet(config_dict, "mode", EmptyStr))

\* the try block raises: a field of DetailedToolkitInfo fails validation, a
\* loop is over something that is no list, or .get is called on something
\* that has none
detail_raises(toolkit_dict) ==
  LET meta == detail_meta(toolkit_dict)
  IN \/ ~ValidStr(DictGet(toolkit_dict, "slug", EmptyStr))
     \/ ~ValidStr(DictGet(toolkit_dict, "name", EmptyStr))
     \/ ~ValidOptStr(meta_field(meta, "description", EmptyStr))
     \/ ~ValidOptStr(meta_field(meta, "logo", None))
     \/ ~ValidStrList(
           DictGet(toolkit_dict, "composio_managed_auth_schemes", EmptyList))
     \/ ~ValidOptStr(DictGet(toolkit_dict, "base_url", None))
     \/ ~IsList(meta_field(meta, "categories", EmptyList))
     \/ ~IsList(raw_auth_configs_of(toolkit_dict))
     \/ \E i \in 1..Len(raw_auth_configs_of(toolkit_dict).list) :
          config_raises(raw_auth_configs_of(toolkit_dict).list[i])

\* the body of the try block, resp being what client.toolkits.retrieve gave
get_detailed_toolkit_info_try(resp) ==
  IF IsRaise(resp) THEN resp
  ELSE IF ~can_be_toolkit_dict(resp) THEN Raise("TypeError")
  ELSE IF detail_raises(toolkit_dict_of(resp)) THEN Raise("Exception")
  ELSE Return(DetailedToolkitInfo(toolkit_dict_of(resp)))

\* a handler that raises again, as the listing methods do
get_detailed_toolkit_info_except_reraise(outcome) == outcome

\* except Exception: log and return None
get_detailed_toolkit_info_except(outcome) ==
  IF IsRaise(outcome) THEN Return(None) ELSE outcome

get_detailed_toolkit_info(resp) ==
  get_detailed_toolkit_info_except(get_detailed_toolkit_info_try(resp))

(***************************************************************************)
(* What the catalog client may answer to toolkits.list                     *)
(***************************************************************************)
MaxItems == 2
MaxLimit == 2
DefaultLimit == 500
SearchFetchLimit == 500

Shapes == {"dict", "obj"}

\* the same content delivered as a mapping or as an object
Shaped(shape, attrs) == IF shape = "dict" THEN Dict(attrs) ELSE Obj(attrs)

API_KEY == Str(<<"API_KEY">>)

Category(shape, id, name) ==
  Shaped(shape, [id |-> Str(<<id>>), name |-> Str(name)])

\* the gmail item, the item and its meta each as a mapping or an object
Gmail(item_shape, meta_shape) ==
  Shaped(item_shape,
    [slug |-> Str(<<"gmail">>),
     name |-> Str(<<"G", "m">>),
     auth_schemes |-> List(<<OAUTH2>>),
     composio_managed_auth_schemes |-> List(<<OAUTH2>>),
     meta |-> Shaped(meta_shape,
       [logo |-> Str(<<"g.png">>),
        description |-> Str(<<"E", "m">>),
        categories |->
          List(<<Category(meta_shape, "comm", <<"C", "o">>)>>)])])

\* logo and description only at the top level, two categories of two shapes
Slack ==
  Dict([slug |-> Str(<<"slack">>),
        name |-> Str(<<"m", "E">>),
        logo |-> Str(<<"s.png">>),
        description |-> Str(<<"C", "h">>),
        auth_schemes |-> List(<<API_KEY, OAUTH2>>),
        composio_managed_auth_schemes |-> List(<<OAUTH2>>),
        meta |-> Dict([description |-> None,
                       categories |->
                         List(<<Category("obj", "crm", <<"c", "r">>),
                                Category("dict", "comm", <<"C", "o">>)>>)])])

\* a second record with the slug gmail, without meta
Gmail2 ==
  Obj([slug |-> Str(<<"gmail">>),
       name |-> Str(<<"g", "M">>),
       auth_schemes |-> List(<<OAUTH2, API_KEY>>),
       composio_managed_auth_schemes |-> List(<<OAUTH2, API_KEY>>)])

\* OAUTH2 not declared
Jira ==
  Dict([slug |-> Str(<<"jira">>),
        name |-> Str(<<"G", "m">>),
        auth_schemes |-> List(<<API_KEY>>),
        composio_managed_auth_schemes |-> List(<<OAUTH2>>),
        meta |-> Dict([description |-> Str(<<"E", "m">>)])])

\* OAUTH2 declared but not managed by the provider: the key is missing
Zoom ==
  Obj([slug |-> Str(<<"zoom">>),
       name |-> Str(<<"C", "o">>),
       auth_schemes |-> List(<<API_KEY, OAUTH2>>)])

\* a record that fails ToolkitInfo's validation
Nameless ==
  Dict([slug |-> Str(<<"x">>),
        name |-> None,
        auth_schemes |-> List(<<OAUTH2>>),
        composio_managed_auth_schemes |-> List(<<OAUTH2>>)])

RawItems ==
  {Gmail("dict", "dict"), Gmail("obj", "obj"), Gmail("dict", "obj"),
   Slack, Gmail2, Jira, Zoom, Nameless, None}

RECURSIVE SeqsUpTo(_, _)
SeqsUpTo(S, n) ==
  IF n = 0 THEN {<<>>}
  ELSE LET shorter == SeqsUpTo(S, n - 1)
       IN shorter \cup {Append(q, x) : q \in shorter, x \in S}

Pagination ==
  [total_items |-> Int_(7), total_pages |-> Int_(3),
   current_page |-> Int_(2), next_cursor |-> Str(<<"n">>)]

ListResponses ==
  {Dict([items |-> List(items)]) : items \in SeqsUpTo(RawItems, MaxItems)}
    \cup {Obj([k \in {"items"} \cup DOMAIN Pagination |->
                 IF k = "items" THEN List(items) ELSE Pagination[k]]) :
            items \in SeqsUpTo(RawItems, MaxItems)}
    \cup {ClientError, None, EmptyDict, Dict([items |-> None])}

(***************************************************************************)
(* What the catalog client may answer to toolkits.retrieve                 *)
(***************************************************************************)
MaxConfigs == 2

\* the same data with every mapping in it delivered in the given shape
RECURSIVE Delivered(_, _)
Delivered(x, shape) ==
  IF IsInstanceDict(x) \/ HasDunderDict(x)
  THEN LET a == [k \in DOMAIN AttrsOf(x) |-> Delivered(AttrsOf(x)[k], shape)]
       IN IF shape = "dict" THEN Dict(a)
          ELSE IF shape = "obj" THEN Obj(a)
          ELSE Model(a)
  ELSE IF IsList(x)
  THEN List([i \in 1..Len(x.list) |-> Delivered(x.list[i], shape)])
  ELSE x

FieldClientId ==
  Dict([name |-> Str(<<"client_id">>), display_name |-> Str(<<"Client">>),
        type |-> Str(<<"string">>), required |-> Bool(TRUE),
        description |-> Str(<<"id">>)])

FieldScope == Dict([name |-> Str(<<"scope">>), default |-> Str(<<"all">>)])

GroupFull ==
  Dict([required |-> List(<<FieldClientId>>), optional |-> List(<<FieldScope>>)])

GroupOptional == Dict([optional |-> List(<<FieldScope, FieldClientId>>)])

\* auth config entries: without fields, with a creation group only, with an
\* initiation group that lists nothing, with initiation groups that list
\* fields, and an entry that is not a record
RawConfigs ==
  {Dict([name |-> Str(<<"bare">>), mode |-> Str(<<"API_KEY">>)]),
   Dict([name |-> Str(<<"creation">>), mode |-> Str(<<"OAUTH2">>),
         fields |-> Dict([auth_config_creation |-> GroupFull])]),
   Dict([name |-> Str(<<"empty">>), mode |-> Str(<<"OAUTH2">>),
         fields |-> Dict([connected_account_initiation |-> EmptyDict])]),
   Dict([name |-> Str(<<"full">>), mode |-> Str(<<"OAUTH2">>),
         fields |-> Dict([connected_account_initiation |-> GroupFull])]),
   Dict([name |-> Str(<<"both">>), mode |-> Str(<<"OAUTH2">>),
         fields |-> Dict([auth_config_creation |-> GroupFull,
                          connected_account_initiation |-> GroupOptional])]),
   None}

RawMeta ==
  Dict([logo |-> Str(<<"g.png">>),
        description |-> Str(<<"E", "m">>),
        categories |-> List(<<Category("dict", "comm", <<"C", "o">>)>>)])

RawToolkit(with_meta, name, configs) ==
  Dict([k \in {"slug", "name", "composio_managed_auth_schemes", "base_url",
               "auth_config_details"}
               \cup (IF with_meta THEN {"meta"} ELSE {}) |->
          CASE k = "slug" -> Str(<<"gmail">>)
            [] k = "name" -> name
            [] k = "composio_managed_auth_schemes" -> List(<<OAUTH2>>)
            [] k = "base_url" -> None
            [] k = "auth_config_details" -> List(configs)
            [] k = "meta" -> RawMeta])

RetrieveShapes == {"dict", "obj", "model"}

RetrieveResponses ==
  {Delivered(RawToolkit(with_meta, Str(<<"G", "m">>), configs), shape) :
     with_meta \in BOOLEAN, configs \in SeqsUpTo(RawConfigs, MaxConfigs),
     shape \in RetrieveShapes}
    \cup {Delivered(RawToolkit(TRUE, None, <<>>), shape) :
            shape \in RetrieveShapes}
    \cup {ClientError, None}

Cursors == {None, EmptyStr, Str(<<"n">>)}
Categories == {None, Str(<<"crm">>)}
Slugs == {<<"gmail">>, <<"slack">>, <<"jira">>, <<>>}
Queries == {<<>>, <<"g">>, <<"G", "M">>, <<"e">>, <<"c", "o">>, <<"z">>}
ListLimits == {1, DefaultLimit}
SearchLimits == (-1)..MaxLimit

(***************************************************************************)
(* The calls                                                               *)
(***************************************************************************)
NoCall == [op |-> "none"]

Init ==
  /\ pc = "idle"
  /\ call = NoCall
  /\ params = NoAttrs
  /\ upstream = None
  /\ result = None

ListToolkits ==
  /\ pc = "idle"
  /\ \E limit \in ListLimits, cursor \in Cursors, category \in Categories,
        resp \in ListResponses :
       /\ call' = [op |-> "list_toolkits", limit |-> limit,
                   cursor |-> cursor, category |-> category]
       /\ params' = list_params(limit, cursor, category)
       /\ upstream' = resp
       /\ result' = list_toolkits(resp)
  /\ pc' = "done"

GetToolkitBySlug ==
  /\ pc = "idle"
  /\ \E slug \in Slugs, resp \in ListResponses :
       /\ call' = [op |-> "get_toolkit_by_slug", slug |-> slug]
       /\ params' = list_params(DefaultLimit, None, None)
       /\ upstream' = resp
       /\ result' = get_toolkit_by_slug(Str(slug), resp)
  /\ pc' = "done"

SearchToolkits ==
  /\ pc = "idle"
  /\ \E query \in Queries, limit \in SearchLimits, resp \in ListResponses,
        cc \in {<<None, None>>, <<Str(<<"n">>), Str(<<"crm">>)>>} :
       /\ call' = [op |-> "search_toolkits", query |-> query,
                   limit |-> limit, cursor |-> cc[1], category |-> cc[2]]
       /\ params' = list_params(SearchFetchLimit, cc[1], cc[2])
       /\ upstream' = resp
       /\ result' = search_toolkits(query, limit, resp)
  /\ pc' = "done"

GetToolkitIcon ==
  /\ pc = "idle"
  /\ \E slug \in Slugs, resp \in RetrieveResponses :
       /\ call' = [op |-> "get_toolkit_icon", slug |-> slug]
       /\ params' = [toolkit_slug |-> Str(slug)]
       /\ upstream' = resp
       /\ result' = get_toolkit_icon(resp)
  /\ pc' = "done"

GetDetailedToolkitInfo ==
  /\ pc = "idle"
  /\ \E slug \in Slugs, resp \in RetrieveResponses :
       /\ call' = [op |-> "get_detailed_toolkit_info", slug |-> slug]
       /\ params' = [toolkit_slug |-> Str(slug)]
       /\ upstream' = resp
       /\ result' = get_detailed_toolkit_info(resp)
  /\ pc' = "done"

\* the caller has the outcome; the service keeps nothing of the call
Finish ==
  /\ pc = "done"
  /\ pc' = "idle"
  /\ call' = NoCall
  /\ params' = NoAttrs
  /\ upstream' = None
  /\ result' = None

Next ==
  \/ ListToolkits
  \/ GetToolkitBySlug
  \/ SearchToolkits
  \/ GetToolkitIcon
  \/ GetDetailedToolkitInfo
  \/ Finish

Spec == Init /\ [][Next]_vars

(***************************************************************************)
(* Properties of list_toolkits, get_toolkit_by_slug and search_toolkits    *)
(***************************************************************************)
Done(op) == pc = "done" /\ call.op = op

Returned(op) == Done(op) /\ IsReturn(result)

\* the raw items of the response the client gave
RawItemsOf(resp) == DictGet(AttrsOf(resp), "items", EmptyList).list

\* "OAUTH2" is a member of the list the raw item holds under key k
RawHasOAuth2(item, k) ==
  LET a == AttrsOf(item)
  IN k \in DOMAIN a /\ \E i \in 1..Len(a[k].list) : a[k].list[i] = OAUTH2

RawQualifies(item) ==
  /\ RawHasOAuth2(item, "auth_schemes")
  /\ RawHasOAuth2(item, "composio_managed_auth_schemes")

\* the raw items that qualify, in upstream order
QualifyingRaw(resp) == SelectSeq(RawItemsOf(resp), RawQualifies)

\* the listing of the response the client gave
Listed == list_toolkits(upstream).ret.items

InSeq(x, seq) == \E i \in 1..Len(seq) : seq[i] = x

\* the lowercased query is part of the lowercased name, description or a tag
QueryFound(toolkit, query) ==
  LET q == Lower(query)
  IN \/ IsSubstr(q, Lower(toolkit.name.str))
     \/ (IsStr(toolkit.description)
           /\ IsSubstr(q, Lower(toolkit.description.str)))
     \/ \E i \in 1..Len(toolkit.tags.list) :
           IsSubstr(q, Lower(toolkit.tags.list[i].str))

MatchCount(toolkits, query) ==
  Cardinality({i \in 1..Len(toolkits) : QueryFound(toolkits[i], query)})

\* C1: list_toolkits returns one item for each raw item that has "OAUTH2" in
\* both auth_schemes and composio_managed_auth_schemes, and none for any other
\* raw item: as many items as qualifying raw items, in their order, each with
\* "OAUTH2" among its auth schemes.
C1_OAuth2Filter ==
  Returned("list_toolkits") =>
    LET raw == QualifyingRaw(upstream)
        out == result.ret.items
    IN /\ Len(out) = Len(raw)
       /\ \A i \in 1..Len(out) :
            /\ i <= Len(raw)
            /\ out[i].slug = AttrsOf(raw[i]).slug
            /\ out[i].name = AttrsOf(raw[i]).name
            /\ InList(OAUTH2, out[i].auth_schemes.list)

C1_Witness ==
  /\ Returned("list_toolkits")
  /\ Len(RawItemsOf(upstream)) = 2
  /\ Len(result.ret.items) = 1
  /\ \E i \in 1..2 : RawHasOAuth2(RawItemsOf(upstream)[i], "auth_schemes")
                      /\ ~RawQualifies(RawItemsOf(upstream)[i])

\* C2: every item search_toolkits returns is an item of the listing of the
\* same response, and the lowercased query is part of its lowercased name,
\* description (when present) or one of its tags.
C2_SearchSubsetAndMatch ==
  Returned("search_toolkits") =>
    \A i \in 1..Len(result.ret.items) :
      /\ InSeq(result.ret.items[i], Listed)
      /\ QueryFound(result.ret.items[i], call.query)

\* found through a tag only, and only case-insensitively
C2_Witness ==
  /\ Returned("search_toolkits")
  /\ call.query = <<"c", "o">>
  /\ Len(Listed) = 2
  /\ Len(result.ret.items) = 1
  /\ result.ret.items[1].tags = List(<<Str(<<"C", "o">>)>>)

\* C3 as stated: for every value of limit, search_toolkits returns no more
\* than limit items.
C3_AtMostLimit_Original ==
  Returned("search_toolkits") => Len(result.ret.items) <= call.limit

\* C3: for every limit that is not negative, search_toolkits returns no more
\* than limit items, even when more listed toolkits match.
C3_AtMostLimit ==
  (Returned("search_toolkits") /\ call.limit >= 0) =>
    Len(result.ret.items) <= call.limit

C3_Witness ==
  /\ Returned("search_toolkits")
  /\ call.limit = 1
  /\ MatchCount(Listed, call.query) = 2
  /\ Len(result.ret.items) = 1

\* C4: get_toolkit_by_slug asks for the listing with limit 500, no cursor and
\* no category; it returns None when no listed item has the slug, and
\* otherwise the listed record whose slug is the one asked for (the first in
\* the listing, should several have it).
C4_BySlug ==
  Returned("get_toolkit_by_slug") =>
    /\ params = [limit |-> Int_(500), managed_by |-> Str(<<"composio">>)]
    /\ IF \A i \in 1..Len(Listed) : Listed[i].slug # Str(call.slug)
       THEN result.ret = None
       ELSE /\ ~IsNone(result.ret)
            /\ \E i \in 1..Len(Listed) :
                 /\ Listed[i] = result.ret
                 /\ Listed[i].slug = Str(call.slug)
                 /\ \A j \in 1..(i - 1) : Listed[j].slug # Str(call.slug)

\* found behind a record of another slug
C4_Witness ==
  /\ Returned("get_toolkit_by_slug")
  /\ Len(Listed) = 2
  /\ Listed[1].slug # Str(call.slug)
  /\ result.ret = Listed[2]

C4_WitnessAbsent ==
  /\ Returned("get_toolkit_by_slug")
  /\ Len(Listed) = 2
  /\ result.ret = None

\* the response of toolkits.list cannot be normalized: it is neither a
\* mapping nor an object, its items are no list, an item is neither a mapping
\* nor an object, or a qualifying item has no string for a name
MalformedListing(resp) ==
  \/ ~HasGet(resp)
  \/ ~IsList(DictGet(AttrsOf(resp), "items", EmptyList))
  \/ \E i \in 1..Len(RawItemsOf(resp)) :
       LET item == RawItemsOf(resp)[i]
       IN \/ ~HasGet(item)
          \/ (RawQualifies(item) /\ ~IsStr(AttrsOf(item).name))

\* C6: when toolkits.list raises or its response is malformed, list_toolkits,
\* get_toolkit_by_slug and search_toolkits end with the exception raised,
\* never with a value.
C6_FailureRaised ==
  (/\ pc = "done"
   /\ call.op \in {"list_toolkits", "get_toolkit_by_slug", "search_toolkits"}
   /\ (IsRaise(upstream) \/ MalformedListing(upstream)))
    => IsRaise(result)

C6_Witness ==
  /\ Done("search_toolkits")
  /\ ~IsRaise(upstream)
  /\ MalformedListing(upstream)
  /\ IsRaise(result)

C6_WitnessClient ==
  /\ Done("get_toolkit_by_slug")
  /\ IsRaise(upstream)
  /\ IsRaise(result)

\* C9: a search_toolkits result has total_pages 1, current_page 1 and
\* next_cursor None whatever pagination the response carries, and total_items
\* is the number of listed toolkits matching the query, never less than the
\* number of items returned.
C9_SearchPagination ==
  Returned("search_toolkits") =>
    /\ result.ret.total_pages = Int_(1)
    /\ result.ret.current_page = Int_(1)
    /\ result.ret.next_cursor = None
    /\ result.ret.total_items = Int_(MatchCount(Listed, call.query))
    /\ result.ret.total_items.int >= Len(result.ret.items)

\* the response carries other pagination, and the result is truncated
C9_Witness ==
  /\ Returned("search_toolkits")
  /\ "total_pages" \in DOMAIN AttrsOf(upstream)
  /\ result.ret.total_items = Int_(2)
  /\ Len(result.ret.items) = 1

\* C8 as stated: for every raw item list_toolkits includes, whether its meta
\* is a mapping or an object, the summary has the logo and the description
\* meta carries, tags are the names of meta's categories and categories their
\* ids, in upstream order.
C8_SummaryFromMeta ==
  Returned("list_toolkits") =>
    LET raw == QualifyingRaw(upstream)
        out == result.ret.items
    IN \A i \in 1..Len(out) :
         (i <= Len(raw) /\ "meta" \in DOMAIN AttrsOf(raw[i])) =>
           LET meta == AttrsOf(AttrsOf(raw[i]).meta)
               cats == DictGet(meta, "categories", EmptyList).list
           IN /\ ("logo" \in DOMAIN meta /\ Truthy(meta.logo))
                   => out[i].logo = meta.logo
              /\ ("description" \in DOMAIN meta /\ Truthy(meta.description))
                   => out[i].description = meta.description
              /\ out[i].tags =
                   List([j \in 1..Len(cats) |-> AttrsOf(cats[j]).name])
              /\ out[i].categories =
                   List([j \in 1..Len(cats) |-> AttrsOf(cats[j]).id])

\* the gmail example, meta delivered as a mapping
C8_GmailExample ==
  list_toolkits(Dict([items |-> List(<<Gmail("dict", "dict")>>)])).ret.items
    = <<[slug |-> Str(<<"gmail">>), name |-> Str(<<"G", "m">>),
         description |-> Str(<<"E", "m">>), logo |-> Str(<<"g.png">>),
         tags |-> List(<<Str(<<"C", "o">>)>>),
         auth_schemes |-> List(<<OAUTH2>>),
         categories |-> List(<<Str(<<"comm">>)>>)]>>

(***************************************************************************)
(* Properties of get_toolkit_icon and get_detailed_toolkit_info            *)
(***************************************************************************)
\* the response of toolkits.retrieve cannot be normalized by the method
MalformedRecord(op, resp) ==
  \/ IsNone(resp)
  \/ /\ op = "get_detailed_toolkit_info"
     /\ HasGet(resp)
     /\ \/ IsNone(AttrsOf(resp).name)
        \/ \E i \in 1..Len(AttrsOf(resp).auth_config_details.list) :
             IsNone(AttrsOf(resp).auth_config_details.list[i])

\* C5: get_toolkit_icon and get_detailed_toolkit_info never end with an
\* exception raised: when toolkits.retrieve raises or its response cannot be
\* normalized, they return None.
C5_FailureGivesNone ==
  (pc = "done" /\ call.op \in {"get_toolkit_icon", "get_detailed_toolkit_info"})
    => /\ IsReturn(result)
       /\ (IsRaise(upstream) \/ MalformedRecord(call.op, upstream))
            => result = Return(None)

C5_Witness ==
  /\ Done("get_detailed_toolkit_info")
  /\ ~IsRaise(upstream)
  /\ MalformedRecord(call.op, upstream)
  /\ result = Return(None)

C5_WitnessIcon ==
  /\ Done("get_toolkit_icon")
  /\ IsRaise(upstream)
  /\ result = Return(None)

\* C7 as stated: get_detailed_toolkit_info gives the same output for the
\* same data delivered as nested mappings and as nested objects.
C7_ShapeAgnostic ==
  Done("get_detailed_toolkit_info") =>
    /\ result = get_detailed_toolkit_info(Delivered(upstream, "dict"))
    /\ result = get_detailed_toolkit_info(Delivered(upstream, "obj"))

\* the key connected_account_initiation is among the entry's fields
DeclaresInitiation(config) ==
  /\ HasGet(config)
  /\ "fields" \in DOMAIN AttrsOf(config)
  /\ "connected_account_initiation" \in DOMAIN AttrsOf(AttrsOf(config).fields)

\* C10 as stated: connected_account_initiation_fields is None when no entry
\* of auth_config_details declares a connected_account_initiation group, and
\* otherwise is what the first entry declaring one carries under
\* connected_account_initiation in the normalized auth_config_details.
C10_FirstInitiationEntry ==
  (Returned("get_detailed_toolkit_info") /\ ~IsNone(result.ret)) =>
    LET configs == AttrsOf(upstream).auth_config_details.list
        declaring == {i \in 1..Len(configs) : DeclaresInitiation(configs[i])}
        got == result.ret.connected_account_initiation_fields
    IN IF declaring = {} THEN got = None
       ELSE LET first == CHOOSE i \in declaring : \A j \in declaring : i <= j
            IN got = Dict(result.ret.auth_config_details[first].fields
                            ["connected_account_initiation"])

====
